---- MODULE Spec2Model ----
(***************************************************************************)
(* ZiadSupplies storefront: the order store (create_order,                 *)
(* get_order_summary), startup reconciliation (init_db, seed_data), the    *)
(* notifier (send_order_confirmation_email) and the POST /api/orders       *)
(* handler, over one SQLite database file.                                 *)
(*                                                                         *)
(* Conventions of the model                                                *)
(*  - db is the committed content of the database file; txn is the open    *)
(*    write transaction of the connection that holds SQLite's write lock.  *)
(*  - A quantity is a JSON number; the model writes it in half units       *)
(*    (3 stands for 1.5), so that int() is a real truncation.              *)
(*  - A product id is a JSON integer; int() of an integer is that integer. *)
(*  - Prices are whole currency units.  The shipped catalog_seed prices    *)
(*    every item at 0.0; the catalog is data, the model takes non-zero     *)
(*    prices so that price * quantity is visible.                          *)
(*  - Strings that the code inspects (email, phone) are sequences of       *)
(*    one-character strings.                                               *)
(*  - SQLite's foreign-key enforcement (PRAGMA foreign_keys = ON) only     *)
(*    ever makes a statement fail; the model does not rely on it: rows     *)
(*    are deleted exactly when the code's statements delete them.          *)
(***************************************************************************)
EXTENDS Integers, Sequences, FiniteSets, TLC

\* db: the committed rows and AUTOINCREMENT counters; txn: the open write
\* transaction; th: the call each thread is running; settings: the SMTP
\* configuration read from the environment; canon: the slugs of the catalog
\* the last startup reconciled against ({"-"} before the first startup)
VARIABLES db, txn, th, settings, canon

vars == <<db, txn, th, settings, canon>>

(***************************************************************************)
(* Bounds                                                                  *)
(***************************************************************************)
\* largest AUTOINCREMENT id a category or product may take, and largest
\* product id a cart may name
MaxId == 2
\* largest AUTOINCREMENT id an order may take
MaxOrders == 1
\* longest cart
MaxLines == 2

\* calls and requests run one after another
Threads == {1}

\* submitted quantities, in half units: -1, 0, 0.5, 1.5, 2
Quantities == {-2, 0, 1, 3, 4}
ProductIdInputs == 1..MaxId

(***************************************************************************)
(* Helpers                                                                 *)
(***************************************************************************)
SeqsUpTo(S, n) == UNION {[1..k -> S] : k \in 0..n}

(***************************************************************************)
(* Python built-ins used by the code                                       *)
(***************************************************************************)
\* int(x) for a number x given in half units: truncation toward zero
PyInt(h) == IF h >= 0 THEN h \div 2 ELSE -((-h) \div 2)

Whitespace == {" ", "\n", "\r", "\t"}

RECURSIVE LStrip(_)
LStrip(s) == IF s # <<>> /\ Head(s) \in Whitespace THEN LStrip(Tail(s)) ELSE s

RECURSIVE RStrip(_)
RStrip(s) ==
    IF s # <<>> /\ s[Len(s)] \in Whitespace
    THEN RStrip(SubSeq(s, 1, Len(s) - 1))
    ELSE s

\* str.strip()
Strip(s) == RStrip(LStrip(s))

\* dict.get(key, default) on a cart line
DictGet(item, key, default) == IF key \in item.keys THEN item[key] ELSE default

(***************************************************************************)
(* Database content                                                        *)
(***************************************************************************)
EmptyDb ==
    [categories  |-> {},
     products    |-> {},
     orders      |-> {},
     order_items |-> {},
     seq         |-> [categories |-> 0, products |-> 0, orders |-> 0, order_items |-> 0]]

NoTxn == [owner |-> 0, view |-> EmptyDb]

\* the catalog literal of seed_data, as data: one product per category
catalog_seed ==
    << [slug |-> "a", name |-> "q",
        items |-> << [subcategory |-> "s", name |-> "x", price |-> 2] >>],
       [slug |-> "b", name |-> "p",
        items |-> << [subcategory |-> "t", name |-> "y", price |-> 3] >> ] >>

Slugs == {catalog_seed[i].slug : i \in DOMAIN catalog_seed}

\* the canonical catalogs a deployment may ship: any set of the categories
Catalog(S) == SelectSeq(catalog_seed, LAMBDA c : c.slug \in S)

(***************************************************************************)
(* db_cursor: leaving the with-block                                       *)
(***************************************************************************)
\* normal exit: conn.commit(), then conn.close()
db_cursor_commit(d, view) == view

\* faulty variant: the exception path commits as well: commit moved into finally
db_cursor_abort_commits(d, view) == view

\* exit by exception: conn.close() alone, which discards the open transaction
db_cursor_abort(d, view) == d

\* conn = _get_connection(): one more connection opened, one more open now
get_connection(thr) == [thr EXCEPT !.conns = @ + 1, !.open = @ + 1]

\* faulty variant: conn.close() after conn.commit() instead of in a finally
\* clause, so that an exception leaves the connection open
db_cursor_exit_no_finally(thr, raised) ==
    IF raised THEN thr ELSE [thr EXCEPT !.open = @ - 1]

\* finally: conn.close(), on the normal exit and on the exit by exception
db_cursor_exit(thr, raised) == [thr EXCEPT !.open = @ - 1]

(***************************************************************************)
(* Startup: init_db, then seed_data                                        *)
(***************************************************************************)
\* faulty variant: the migration leaves the status of legacy orders alone
apply_migrations_skips(d) == d

\* _apply_migrations: legacy orders are normalised (the schema statements
\* and the COALESCE on price change no row of the model)
apply_migrations(d) ==
    [d EXCEPT !.orders =
        {IF o.status = "pending_verification" THEN [o EXCEPT !.status = "received"] ELSE o
            : o \in d.orders}]

init_db(d) == apply_migrations(d)

ProductsOfCategory(d, category_id) == {p \in d.products : p.category_id = category_id}

\* SELECT COUNT(*) FROM order_items WHERE product_id IN (products of the category)
referencing(d, category_id) ==
    Cardinality({oi \in d.order_items :
        \E p \in ProductsOfCategory(d, category_id) : p.id = oi.product_id})

\* the three DELETE statements for one category
delete_category(d, category_id) ==
    LET gone == {p.id : p \in ProductsOfCategory(d, category_id)}
    IN  [d EXCEPT !.order_items = {oi \in d.order_items : oi.product_id \notin gone},
                  !.products    = {p \in d.products : p.category_id # category_id},
                  !.categories  = {c \in d.categories : c.id # category_id}]

\* faulty variant: a stale category is removed with its products without looking
\* for order items that reference them
reconcile_existing_unchecked(d, existing, target_slugs) ==
    IF existing.slug \in target_slugs
    THEN d
    ELSE [d EXCEPT !.products   = {p \in d.products : p.category_id # existing.id},
                   !.categories = {c \in d.categories : c.id # existing.id}]

\* faulty variant: a stale category is removed with its products and the
\* order items that reference them
reconcile_existing_purges(d, existing, target_slugs) ==
    IF existing.slug \in target_slugs THEN d ELSE delete_category(d, existing.id)

\* faulty variant: a stale category is never removed
reconcile_existing_keeps(d, existing, target_slugs) == d

\* one iteration of the loop over existing_categories
reconcile_existing(d, existing, target_slugs) ==
    IF existing.slug \in target_slugs
    THEN d
    ELSE IF referencing(d, existing.id) = 0
         THEN delete_category(d, existing.id)
         ELSE d

\* the loop over existing_categories (fetched before the loop, in rowid order)
RECURSIVE prune_categories(_, _, _)
prune_categories(d, existing_categories, target_slugs) ==
    IF existing_categories = {}
    THEN d
    ELSE LET first == CHOOSE c \in existing_categories :
                        \A o \in existing_categories : c.id <= o.id
         IN  prune_categories(reconcile_existing(d, first, target_slugs),
                              existing_categories \ {first}, target_slugs)

\* faulty variant: the product is inserted without looking for the row of
\* an earlier run
upsert_product_inserts(d, category_id, item) ==
    [d EXCEPT !.products = d.products \cup
                    {[id |-> d.seq.products + 1, category_id |-> category_id,
                      subcategory |-> item.subcategory,
                      name |-> item.name, price |-> item.price]},
              !.seq.products = d.seq.products + 1]

\* one iteration of the loop over category["items"]: UPDATE or INSERT a product
upsert_product(d, category_id, item) ==
    LET found == {p \in d.products : p.category_id = category_id /\ p.name = item.name}
    IN  IF found # {}
        THEN LET existing_product == CHOOSE p \in found : \A o \in found : p.id <= o.id
             IN  [d EXCEPT !.products =
                    (d.products \ {existing_product})
                        \cup {[existing_product EXCEPT !.subcategory = item.subcategory,
                                                       !.price = item.price]}]
        ELSE [d EXCEPT !.products = d.products \cup
                            {[id |-> d.seq.products + 1, category_id |-> category_id,
                              subcategory |-> item.subcategory,
                              name |-> item.name, price |-> item.price]},
                       !.seq.products = d.seq.products + 1]

RECURSIVE upsert_products(_, _, _)
upsert_products(d, category_id, items) ==
    IF items = <<>>
    THEN d
    ELSE upsert_products(upsert_product(d, category_id, Head(items)), category_id, Tail(items))

\* one iteration of the loop over catalog_seed: UPDATE or INSERT the category,
\* then its products
upsert_category(d, category) ==
    LET found == {c \in d.categories : c.slug = category.slug}
    IN  IF found # {}
        THEN LET existing_category == CHOOSE c \in found : TRUE
                 d1 == [d EXCEPT !.categories =
                            (d.categories \ {existing_category})
                                \cup {[existing_category EXCEPT !.name = category.name]}]
             IN  upsert_products(d1, existing_category.id, category.items)
        ELSE LET category_id == d.seq.categories + 1
                 d1 == [d EXCEPT !.categories = d.categories \cup
                                    {[id |-> category_id, slug |-> category.slug,
                                      name |-> category.name]},
                                 !.seq.categories = category_id]
             IN  upsert_products(d1, category_id, category.items)

RECURSIVE upsert_categories(_, _)
upsert_categories(d, catalog) ==
    IF catalog = <<>>
    THEN d
    ELSE upsert_categories(upsert_category(d, Head(catalog)), Tail(catalog))

\* seed_data against a canonical catalog, one transaction
seed_data(d, catalog) ==
    LET target_slugs == {catalog[i].slug : i \in DOMAIN catalog}
    IN  upsert_categories(prune_categories(d, d.categories, target_slugs), catalog)

(***************************************************************************)
(* Calls in progress                                                       *)
(***************************************************************************)
NoSummary == [found |-> FALSE]

NoObs == [lines |-> 0, resolved |-> 0, distinct |-> 0,
          nonpos |-> FALSE, unknown |-> FALSE, valid |-> FALSE]

\* pc: where the call stands; mode: "call" for a direct use of the order
\* store, "http" for a POST /api/orders request; exc/msg: the exception that
\* ended create_order or the handler; conns: connections opened so far;
\* open: connections of the thread that are open now;
\* result: how create_order ended ("returned", "raised"); committed: a step
\* of this call changed the committed database; raced: another create_order
\* call was between its product lookup and its commit when this one made
\* its own lookup; catalogs: what the get_catalog calls of the thread
\* returned; invoked/obs/errs record what the call was given, for the
\* properties.
IdleThread ==
    [pc |-> "idle", mode |-> "none", items |-> <<>>, email |-> <<>>,
     order_id |-> 0, i |-> 0, exc |-> "none", msg |-> "none",
     summary |-> NoSummary, delivered |-> "none", sends |-> 0, response |-> 0,
     conns |-> 0, open |-> 0, invoked |-> FALSE, result |-> "none", committed |-> FALSE,
     raced |-> FALSE, catalogs |-> <<>>, obs |-> NoObs, errs |-> {}]

\* cart lines as create_order receives them: dicts with both keys
Lines ==
    {[isdict |-> TRUE, keys |-> {"productId", "quantity"}, productId |-> p, quantity |-> q]
        : p \in ProductIdInputs, q \in Quantities}

Carts == SeqsUpTo(Lines, MaxLines)

GoodEmail == <<"a", "@", "b">>

(***************************************************************************)
(* What a cart is, independently of how create_order treats it             *)
(***************************************************************************)
ProductIdsOf(items) == {items[i].productId : i \in DOMAIN items}

Observe(d, items) ==
    [lines    |-> Len(items),
     resolved |-> Cardinality({p \in d.products : p.id \in ProductIdsOf(items)}),
     distinct |-> Cardinality(ProductIdsOf(items)),
     nonpos   |-> \E i \in DOMAIN items : items[i].quantity <= 0,
     unknown  |-> \E i \in DOMAIN items :
                    \A p \in d.products : p.id # items[i].productId,
     valid    |-> /\ items # <<>>
                  /\ \A i \in DOMAIN items :
                        /\ \E p \in d.products : p.id = items[i].productId
                        /\ items[i].quantity > 0
                        /\ items[i].quantity % 2 = 0]

(***************************************************************************)
(* create_order                                                            *)
(***************************************************************************)
\* _get_products_by_ids: the rows whose id is among product_ids (the dict
\* the code builds has one entry per row)
get_products_by_ids(d, product_ids) ==
    {p \in d.products : \E i \in DOMAIN product_ids : product_ids[i] = p.id}

\* faulty variant: the cart passes as soon as one product resolves
products_resolved_some(products, product_ids) == products # {}

\* line 761: the test that lets the cart through
products_resolved(products, product_ids) == Cardinality(products) = Len(product_ids)

\* faulty variant: quantity < 0 in place of quantity <= 0
quantity_rejected_negative(item) == PyInt(DictGet(item, "quantity", 0)) < 0

\* lines 765-766: the test that rejects a line
quantity_rejected(item) == PyInt(DictGet(item, "quantity", 0)) <= 0

\* how the caller sees an exception leaving create_order: a direct caller
\* gets it; the handler's except clauses turn it into a response
raise(thr, exc, msg) ==
    [thr EXCEPT !.pc = "done", !.exc = exc, !.msg = msg, !.items = <<>>,
                !.response = IF thr.mode # "http" THEN 0
                             ELSE IF exc = "ValueError" THEN 400 ELSE 500]

\* an exception leaves create_order
create_order_raise(thr, exc, msg) == [raise(thr, exc, msg) EXCEPT !.result = "raised"]

\* faulty variant: create_order without its "if not items" test
create_order_enter_untested(thr, d, email, items) ==
    LET t1          == get_connection(
                            [thr EXCEPT !.invoked = TRUE, !.obs = Observe(d, items)])
        product_ids == [i \in DOMAIN items |-> items[i].productId]
        products    == get_products_by_ids(d, product_ids)
    IN  IF ~products_resolved(products, product_ids)
        THEN create_order_raise(db_cursor_exit(t1, TRUE), "ValueError",
                                "One or more products do not exist.")
        ELSE IF \E i \in DOMAIN items : quantity_rejected(items[i])
             THEN create_order_raise(db_cursor_exit(t1, TRUE), "ValueError",
                                     "Quantities must be greater than zero.")
             ELSE [t1 EXCEPT !.pc = "insert_order", !.items = items, !.email = email]

\* lines 755-767: the empty-cart test, then inside db_cursor the product
\* lookup and the two validations
create_order_enter(thr, d, email, items) ==
    LET t0 == [thr EXCEPT !.invoked = TRUE, !.obs = Observe(d, items)]
    IN  IF items = <<>>
        THEN create_order_raise(t0, "ValueError", "Cart is empty.")
        ELSE LET t1          == get_connection(t0)
                 product_ids == [i \in DOMAIN items |-> items[i].productId]
                 products    == get_products_by_ids(d, product_ids)
             IN  IF ~products_resolved(products, product_ids)
                 THEN create_order_raise(db_cursor_exit(t1, TRUE), "ValueError",
                                         "One or more products do not exist.")
                 ELSE IF \E i \in DOMAIN items : quantity_rejected(items[i])
                      THEN create_order_raise(db_cursor_exit(t1, TRUE), "ValueError",
                                              "Quantities must be greater than zero.")
                      ELSE [t1 EXCEPT !.pc = "insert_order", !.items = items,
                                      !.email = email]

\* lines 769-778: INSERT INTO orders inside a new write transaction
insert_order(view, email) ==
    [view EXCEPT !.orders = view.orders \cup
                    {[id |-> view.seq.orders + 1, status |-> "received", email |-> email]},
                 !.seq.orders = view.seq.orders + 1]

\* faulty variant: every item row is attached to the first order
insert_item_first_order(view, order_id, item) ==
    [view EXCEPT !.order_items = view.order_items \cup
                    {[id |-> view.seq.order_items + 1, order_id |-> 1,
                      product_id |-> item.productId,
                      quantity |-> PyInt(item.quantity)]},
                 !.seq.order_items = view.seq.order_items + 1]

\* lines 781-789: INSERT INTO order_items for one cart line
insert_item(view, order_id, item) ==
    [view EXCEPT !.order_items = view.order_items \cup
                    {[id |-> view.seq.order_items + 1, order_id |-> order_id,
                      product_id |-> item.productId,
                      quantity |-> PyInt(item.quantity)]},
                 !.seq.order_items = view.seq.order_items + 1]

(***************************************************************************)
(* get_order_summary                                                       *)
(***************************************************************************)
RECURSIVE SumSeq(_)
SumSeq(s) == IF s = <<>> THEN 0 ELSE Head(s) + SumSeq(Tail(s))

\* the joined rows of one order, in rowid order
RECURSIVE joined_rows(_, _)
joined_rows(d, rows) ==
    IF rows = {}
    THEN <<>>
    ELSE LET first == CHOOSE r \in rows : \A o \in rows : r.id <= o.id
             match == {p \in d.products : p.id = first.product_id}
             rest  == joined_rows(d, rows \ {first})
         IN  IF match = {}
             THEN rest
             ELSE LET p == CHOOSE p \in match : TRUE
                  IN  <<[name |-> p.name, price |-> p.price, quantity |-> first.quantity]>>
                        \o rest

line_total(row) == row.price * row.quantity

\* faulty variant: an id without an order gets a summary with no lines
get_order_summary_blank(d, order_id) ==
    [found |-> TRUE, id |-> order_id, email |-> <<>>, status |-> "received",
     items |-> <<>>, total |-> 0]

get_order_summary(d, order_id) ==
    LET order == {o \in d.orders : o.id = order_id}
    IN  IF order = {}
        THEN NoSummary
        ELSE LET o     == CHOOSE o \in order : TRUE
                 items == joined_rows(d, {oi \in d.order_items : oi.order_id = order_id})
             IN  [found  |-> TRUE,
                  id     |-> o.id,
                  email  |-> o.email,
                  status |-> o.status,
                  items  |-> [k \in DOMAIN items |->
                                [name |-> items[k].name, price |-> items[k].price,
                                 quantity |-> items[k].quantity,
                                 lineTotal |-> line_total(items[k])]],
                  total  |-> SumSeq([k \in DOMAIN items |-> line_total(items[k])])]


(***************************************************************************)
(* get_catalog                                                             *)
(***************************************************************************)
\* the one-character strings of the model, in code-point order
Alphabet == <<"p", "q", "s", "t", "x", "y", "z">>

Ord(c) == CHOOSE i \in DOMAIN Alphabet : Alphabet[i] = c

\* ORDER BY name (rows with equal names come in rowid order)
category_before(r, o) ==
    \/ Ord(r.name) < Ord(o.name)
    \/ r.name = o.name /\ r.id <= o.id

RECURSIVE ordered_categories(_)
ordered_categories(rows) ==
    IF rows = {}
    THEN <<>>
    ELSE LET first == CHOOSE r \in rows : \A o \in rows : category_before(r, o)
         IN  <<first>> \o ordered_categories(rows \ {first})

\* faulty variant: ORDER BY name alone
product_before_by_name(r, o) ==
    \/ Ord(r.name) < Ord(o.name)
    \/ r.name = o.name /\ r.id <= o.id

\* ORDER BY subcategory, name (rows equal on both come in rowid order)
product_before(r, o) ==
    \/ Ord(r.subcategory) < Ord(o.subcategory)
    \/ r.subcategory = o.subcategory /\ Ord(r.name) < Ord(o.name)
    \/ r.subcategory = o.subcategory /\ r.name = o.name /\ r.id <= o.id

RECURSIVE ordered_products(_)
ordered_products(rows) ==
    IF rows = {}
    THEN <<>>
    ELSE LET first == CHOOSE r \in rows : \A o \in rows : product_before(r, o)
         IN  <<first>> \o ordered_products(rows \ {first})

\* the loop over products: subcategory_map.setdefault(...), then append;
\* a dict keeps its keys in insertion order
RECURSIVE subcategory_map(_, _)
subcategory_map(products, groups) ==
    IF products = <<>>
    THEN groups
    ELSE LET product == Head(products)
             item    == [id |-> product.id, name |-> product.name, price |-> product.price]
             found   == {g \in DOMAIN groups : groups[g].subcategory = product.subcategory}
         IN  IF found = {}
             THEN subcategory_map(Tail(products),
                    Append(groups, [subcategory |-> product.subcategory, items |-> <<item>>]))
             ELSE LET g == CHOOSE g \in found : TRUE
                  IN  subcategory_map(Tail(products),
                        [groups EXCEPT ![g].items = Append(@, item)])

get_catalog(d) ==
    LET categories == ordered_categories(d.categories)
    IN  [k \in DOMAIN categories |->
            [id   |-> categories[k].id,
             slug |-> categories[k].slug,
             name |-> categories[k].name,
             subcategories |->
                subcategory_map(
                    ordered_products(ProductsOfCategory(d, categories[k].id)), <<>>)]]

\* faulty variant: reading the catalog empties the products table
get_catalog_writes_none(d) == [d EXCEPT !.products = {}]

\* the rows as get_catalog's transaction leaves them: it runs SELECT
\* statements only
get_catalog_writes(d) == d

(***************************************************************************)
(* POST /api/orders: the request                                           *)
(***************************************************************************)
required_fields == {"customerName", "email", "phone", "address", "items"}

\* what the body is: Content-Length not a number; no body; bytes that are
\* not UTF-8; text that is not JSON; a JSON number, boolean or null; a JSON
\* array or string; a JSON object
Bodies == {"bad_length", "empty", "bad_utf8", "bad_json", "scalar", "array", "object"}

NonDict == [isdict |-> FALSE, keys |-> {}, productId |-> 0, quantity |-> 0]

BadElements ==
    {NonDict,
     [isdict |-> TRUE, keys |-> {"productId"}, productId |-> 1, quantity |-> 0],
     [isdict |-> TRUE, keys |-> {"quantity"}, productId |-> 0, quantity |-> 4]}

OkLine == [isdict |-> TRUE, keys |-> {"productId", "quantity"}, productId |-> 1, quantity |-> 4]

NotAList == [islist |-> FALSE, elems |-> <<>>]

List(elems) == [islist |-> TRUE, elems |-> elems]

NoAtEmail == <<"a", "b">>
InjectedEmail == <<"a", "\n", "@", "b">>
PaddedEmail == <<" ", "a", "@", "b", "\n">>
Emails == {GoodEmail, NoAtEmail, InjectedEmail, PaddedEmail}

GoodPhone == <<"1", "2", "3", "4", "5", "6">>
ShortPhone == <<" ", "1", "2", "3", "4", "5", " ">>
Phones == {GoodPhone, ShortPhone}

Request(body, missing, items, email, phone) ==
    [body |-> body, missing |-> missing, items |-> items, email |-> email, phone |-> phone]

\* requests whose body is no JSON object
BodyRequests ==
    {Request(b, "none", NotAList, GoodEmail, GoodPhone) : b \in Bodies \ {"object"}}

\* JSON objects that differ in their fields and in the shape of items
FieldRequests ==
    {Request("object", m, it, e, ph) :
        m \in required_fields \cup {"none"},
        it \in {NotAList, List(<<>>), List(<<OkLine>>)}
                \cup {List(<<OkLine, b>>) : b \in BadElements}
                \cup {List(<<b>>) : b \in BadElements},
        e \in Emails, ph \in Phones}

\* JSON objects with every field, that differ in the cart and the email
CartRequests ==
    {Request("object", "none", List(c), e, GoodPhone) :
        c \in Carts \ {<<>>}, e \in Emails}

Requests == BodyRequests \cup FieldRequests \cup CartRequests

Contains(s, ch) == \E i \in DOMAIN s : s[i] = ch

(***************************************************************************)
(* POST /api/orders: the handler                                           *)
(***************************************************************************)
\* _validate_order_payload on a JSON object, array or string: the error
\* message, or "none"
validate_order_payload(req) ==
    IF req.body # "object" \/ req.missing # "none"
    THEN "Missing required field"
    ELSE IF ~req.items.islist \/ req.items.elems = <<>>
    THEN "Cart cannot be empty."
    ELSE IF ~Contains(Strip(req.email), "@")
    THEN "A valid email address is required."
    ELSE IF Len(Strip(req.phone)) < 6
    THEN "Phone number looks too short."
    ELSE IF \E i \in DOMAIN req.items.elems : ~req.items.elems[i].isdict
    THEN "Each cart item must be an object."
    ELSE IF \E i \in DOMAIN req.items.elems :
                ~({"productId", "quantity"} \subseteq req.items.elems[i].keys)
    THEN "Cart items require productId and quantity."
    ELSE "none"

\* _send_error_json(status, message), or an exception no except clause of
\* the handler catches: the server closes the connection without a response
respond_error(thr, status, msg) ==
    [thr EXCEPT !.pc = "done", !.response = status, !.msg = msg]

uncaught(thr, exc) ==
    [thr EXCEPT !.pc = "done", !.response = -1, !.exc = exc]

\* lines 89-115: read and parse the body, validate, call create_order
handle_create_order(thr, d, req) ==
    IF req.body = "bad_length"
    THEN respond_error(thr, 400, "Invalid content length.")
    ELSE IF req.body = "bad_utf8"
    THEN uncaught(thr, "UnicodeDecodeError")
    ELSE IF req.body = "bad_json"
    THEN respond_error(thr, 400, "Request body must be valid JSON.")
    ELSE IF req.body = "scalar"
    THEN uncaught(thr, "TypeError")
    ELSE LET validation_error ==
                IF req.body = "empty"
                THEN "Missing required field"
                ELSE validate_order_payload(req)
         IN  IF validation_error # "none"
             THEN respond_error(thr, 400, validation_error)
             ELSE create_order_enter(thr, d, Strip(req.email), req.items.elems)

(***************************************************************************)
(* The notifier                                                            *)
(***************************************************************************)
\* what email.message refuses in a header value
Linefeeds == {"\n", "\r"}

\* build_order_confirmation_email: message["To"] = recipient_email raises
\* ValueError when the address holds a line break
build_raises(order_summary) == \E i \in DOMAIN order_summary.email :
                                    order_summary.email[i] \in Linefeeds

\* line 66: the transport is not configured, or there is no recipient
not_configured(cfg, order_summary) ==
    ~cfg.smtp_host \/ ~cfg.email_from \/ order_summary.email = <<>>

\* what the one SMTP conversation may do
SendOutcomes == {"sent", "unreachable", "auth_rejected", "timeout"}

\* send_order_confirmation_email: "raised" when an exception reaches the
\* caller, else the boolean it returns
send_order_confirmation_email(cfg, order_summary, outcome) ==
    IF build_raises(order_summary)
    THEN "raised"
    ELSE IF not_configured(cfg, order_summary)
    THEN "false"
    ELSE IF outcome = "sent" THEN "true" ELSE "false"

\* whether the call reaches smtplib.SMTP(...)
attempts_send(cfg, order_summary) ==
    ~build_raises(order_summary) /\ ~not_configured(cfg, order_summary)

\* faulty variant: a failed send is tried once more
send_attempts_retrying(cfg, order_summary, outcome) ==
    IF ~attempts_send(cfg, order_summary) THEN 0
    ELSE IF outcome = "sent" THEN 1 ELSE 2

\* lines 74-85: the SMTP sessions one call opens
send_attempts(cfg, order_summary, outcome) ==
    IF attempts_send(cfg, order_summary) THEN 1 ELSE 0

(***************************************************************************)
(* What a request is, independently of how the handler treats it: the      *)
(* input errors it carries                                                 *)
(***************************************************************************)
FieldLevelErrors == {"malformed_json", "missing_field", "bad_items", "bad_email", "bad_phone"}

IsCart(items) ==
    /\ items.islist
    /\ items.elems # <<>>
    /\ \A i \in DOMAIN items.elems :
          /\ items.elems[i].isdict
          /\ {"productId", "quantity"} \subseteq items.elems[i].keys

InputErrors(d, req) ==
    IF req.body \in {"bad_utf8", "bad_json"} THEN {"malformed_json"}
    ELSE IF req.body \in {"empty", "scalar", "array"} THEN {"missing_field"}
    ELSE IF req.body = "bad_length" THEN {}
    ELSE (IF req.missing # "none" THEN {"missing_field"} ELSE {})
      \cup (IF req.missing # "items" /\ ~IsCart(req.items) THEN {"bad_items"} ELSE {})
      \cup (IF req.missing # "email" /\ ~Contains(Strip(req.email), "@")
            THEN {"bad_email"} ELSE {})
      \cup (IF req.missing # "phone" /\ Len(Strip(req.phone)) < 6
            THEN {"bad_phone"} ELSE {})
      \cup (IF req.missing # "items" /\ IsCart(req.items) /\ Observe(d, req.items.elems).unknown
            THEN {"unknown_product"} ELSE {})
      \cup (IF req.missing # "items" /\ IsCart(req.items) /\ Observe(d, req.items.elems).nonpos
            THEN {"nonpositive_quantity"} ELSE {})

(***************************************************************************)
(* Actions                                                                 *)
(***************************************************************************)
AllIdle == \A t \in DOMAIN th : th[t].pc = "idle"

\* run(): init_db(), then seed_data(), before the server accepts a request
Startup(S) ==
    /\ AllIdle
    /\ LET d == seed_data(init_db(db), Catalog(S))
       IN  /\ d.seq.categories <= MaxId
           /\ d.seq.products <= MaxId
           /\ db' = d
    /\ canon' = S
    /\ UNCHANGED <<txn, th, settings>>

Started == canon # {"-"}

\* another thread is inside create_order's with-block
InFlight(t) == \E u \in DOMAIN th \ {t} : th[u].pc \in {"insert_order", "insert_items"}

\* a direct call of create_order
CallCreateOrder(t, items) ==
    /\ Started
    /\ th[t].pc = "idle"
    /\ th' = [th EXCEPT ![t] =
                create_order_enter(
                    [IdleThread EXCEPT !.mode = "call", !.raced = InFlight(t)],
                    db, GoodEmail, items)]
    /\ UNCHANGED <<db, txn, settings, canon>>

\* the INSERT of the order row takes SQLite's write lock; cap bounds the
\* AUTOINCREMENT counter of orders
InsertOrderWithin(t, cap) ==
    /\ th[t].pc = "insert_order"
    /\ txn.owner = 0
    /\ db.seq.orders < cap
    /\ txn' = [owner |-> t, view |-> insert_order(db, th[t].email)]
    /\ th' = [th EXCEPT ![t].pc = "insert_items", ![t].order_id = db.seq.orders + 1,
                        ![t].i = 1]
    /\ UNCHANGED <<db, settings, canon>>

InsertOrder(t) == InsertOrderWithin(t, MaxOrders)

\* the write lock is held by another connection for longer than the
\* connection's busy timeout: the INSERT raises sqlite3.OperationalError
\* ("database is locked")
Busy(t) ==
    /\ th[t].pc = "insert_order"
    /\ txn.owner \notin {0, t}
    /\ th' = [th EXCEPT ![t] =
                create_order_raise(db_cursor_exit(th[t], TRUE), "OperationalError", "locked")]
    /\ UNCHANGED <<db, txn, settings, canon>>

InsertItem(t) ==
    /\ th[t].pc = "insert_items"
    /\ txn.owner = t
    /\ th[t].i <= Len(th[t].items)
    /\ txn' = [txn EXCEPT !.view = insert_item(txn.view, th[t].order_id, th[t].items[th[t].i])]
    /\ th' = [th EXCEPT ![t].i = th[t].i + 1]
    /\ UNCHANGED <<db, settings, canon>>

\* the with-block ends normally: commit, close, return order_id
Commit(t) ==
    /\ th[t].pc = "insert_items"
    /\ txn.owner = t
    /\ th[t].i > Len(th[t].items)
    /\ db' = db_cursor_commit(db, txn.view)
    /\ txn' = NoTxn
    /\ th' = [th EXCEPT ![t] =
                [db_cursor_exit(th[t], FALSE) EXCEPT
                    !.pc = IF th[t].mode = "http" THEN "summary" ELSE "returned",
                    !.result = "returned",
                    !.committed = (db_cursor_commit(db, txn.view) # db)]]
    /\ UNCHANGED <<settings, canon>>

\* a statement or the commit fails after the order row was inserted
\* (sqlite3.Error): the exception leaves the with-block
StorageFault(t) ==
    /\ th[t].pc = "insert_items"
    /\ txn.owner = t
    /\ db' = db_cursor_abort(db, txn.view)
    /\ txn' = NoTxn
    /\ th' = [th EXCEPT ![t] =
                [create_order_raise(db_cursor_exit(th[t], TRUE), "OperationalError", "storage")
                    EXCEPT !.committed = (db_cursor_abort(db, txn.view) # db)]]
    /\ UNCHANGED <<settings, canon>>

\* a direct caller reads the summary of the order it created
CallGetOrderSummary(t) ==
    /\ th[t].pc = "returned"
    /\ th' = [th EXCEPT ![t] =
                [db_cursor_exit(get_connection(th[t]), FALSE) EXCEPT
                    !.pc = "done",
                    !.summary = get_order_summary(db, th[t].order_id)]]
    /\ UNCHANGED <<db, txn, settings, canon>>

\* the ids a caller may ask the summary of: none, an order's, one beyond
OrderIdInputs == 0..(MaxOrders + 1)

\* a direct call of get_order_summary with any id
CallGetOrderSummaryOf(t, order_id) ==
    /\ Started
    /\ th[t].pc = "idle"
    /\ txn.owner = 0
    /\ db' = db_cursor_commit(db, db)
    /\ th' = [th EXCEPT ![t] =
                [db_cursor_exit(get_connection(th[t]), FALSE) EXCEPT
                    !.pc = "done", !.mode = "lookup",
                    !.order_id = order_id,
                    !.summary = get_order_summary(db, order_id)]]
    /\ UNCHANGED <<txn, settings, canon>>

\* get_catalog(), once and then once more by the same caller
CallGetCatalog(t) ==
    /\ Started
    /\ th[t].pc \in {"idle", "catalog"}
    /\ txn.owner = 0
    /\ db' = db_cursor_commit(db, get_catalog_writes(db))
    /\ th' = [th EXCEPT ![t] =
                [db_cursor_exit(get_connection(th[t]), FALSE) EXCEPT
                    !.pc = IF th[t].pc = "idle" THEN "catalog" ELSE "done",
                    !.mode = "catalog",
                    !.catalogs = Append(th[t].catalogs, get_catalog(db))]]
    /\ UNCHANGED <<txn, settings, canon>>

\* a POST /api/orders request arrives
Receive(t, req) ==
    /\ Started
    /\ th[t].pc = "idle"
    /\ th' = [th EXCEPT ![t] =
                handle_create_order(
                    [IdleThread EXCEPT !.mode = "http", !.errs = InputErrors(db, req)],
                    db, req)]
    /\ UNCHANGED <<db, txn, settings, canon>>

\* line 116: summary = get_order_summary(order_id)
GetOrderSummary(t) ==
    /\ th[t].pc = "summary"
    /\ th' = [th EXCEPT ![t] =
                [db_cursor_exit(get_connection(th[t]), FALSE) EXCEPT
                    !.pc = "notify",
                    !.summary = get_order_summary(db, th[t].order_id)]]
    /\ UNCHANGED <<db, txn, settings, canon>>

\* lines 117-118: if summary: send_order_confirmation_email(summary);
\* a ValueError from it is caught by the handler's except ValueError
Notify(t, outcome) ==
    /\ th[t].pc = "notify"
    /\ IF ~th[t].summary.found
       THEN th' = [th EXCEPT ![t].pc = "respond"]
       ELSE LET r == send_order_confirmation_email(settings, th[t].summary, outcome)
                n == send_attempts(settings, th[t].summary, outcome)
            IN  th' = [th EXCEPT ![t] =
                        IF r = "raised"
                        THEN [raise(th[t], "ValueError", "header") EXCEPT !.delivered = r]
                        ELSE [th[t] EXCEPT !.pc = "respond", !.delivered = r,
                                           !.sends = th[t].sends + n]]
    /\ UNCHANGED <<db, txn, settings, canon>>

\* lines 120-131: the 201 response
Respond(t) ==
    /\ th[t].pc = "respond"
    /\ th' = [th EXCEPT ![t].pc = "done", ![t].response = 201, ![t].items = <<>>]
    /\ UNCHANGED <<db, txn, settings, canon>>

\* the call or the request is over
Finish(t) ==
    /\ th[t].pc = "done"
    /\ th' = [th EXCEPT ![t] = IdleThread]
    /\ UNCHANGED <<db, txn, settings, canon>>

\* config.settings: whether SMTP_HOST and EMAIL_FROM are set in the environment
SettingsSet ==
    {[smtp_host |-> FALSE, email_from |-> FALSE],
     [smtp_host |-> TRUE,  email_from |-> FALSE],
     [smtp_host |-> TRUE,  email_from |-> TRUE]}

Init ==
    /\ db = EmptyDb
    /\ txn = NoTxn
    /\ th = [t \in Threads |-> IdleThread]
    /\ settings \in SettingsSet
    /\ canon = {"-"}

Next ==
    \/ \E S \in SUBSET Slugs : Startup(S)
    \/ \E t \in Threads, items \in Carts : CallCreateOrder(t, items)
    \/ \E t \in Threads : InsertOrder(t)
    \/ \E t \in Threads : InsertItem(t)
    \/ \E t \in Threads : Commit(t)
    \/ \E t \in Threads : StorageFault(t)
    \/ \E t \in Threads : CallGetOrderSummary(t)
    \/ \E t \in Threads, order_id \in OrderIdInputs : CallGetOrderSummaryOf(t, order_id)
    \/ \E t \in Threads : CallGetCatalog(t)
    \/ \E t \in Threads, req \in Requests : Receive(t, req)
    \/ \E t \in Threads : GetOrderSummary(t)
    \/ \E t \in Threads, outcome \in SendOutcomes : Notify(t, outcome)
    \/ \E t \in Threads : Respond(t)
    \/ \E t \in Threads : Finish(t)

Spec == Init /\ [][Next]_vars

(***************************************************************************)
(* The same program started on the database file of an earlier version,    *)
(* which holds an order that still awaits verification                     *)
(***************************************************************************)
LegacyEmail == <<"l", "@", "b">>

LegacyDb ==
    [categories  |-> {[id |-> 1, slug |-> "a", name |-> "q"]},
     products    |-> {[id |-> 1, category_id |-> 1, subcategory |-> "s", name |-> "x",
                       price |-> 2]},
     orders      |-> {[id |-> 1, status |-> "pending_verification", email |-> LegacyEmail]},
     order_items |-> {[id |-> 1, order_id |-> 1, product_id |-> 1, quantity |-> 1]},
     seq         |-> [categories |-> 1, products |-> 1, orders |-> 1, order_items |-> 1]]

InitLegacy ==
    /\ db \in {EmptyDb, LegacyDb}
    /\ txn = NoTxn
    /\ th = [t \in Threads |-> IdleThread]
    /\ settings \in SettingsSet
    /\ canon = {"-"}

SpecLegacy == InitLegacy /\ [][Next]_vars

(***************************************************************************)
(* get_catalog on the databases that startup leaves for richer catalogs    *)
(***************************************************************************)
\* longest item list of a category
MaxItems == 3

CatalogItems == [subcategory : {"s", "t"}, name : {"x", "y", "z"}, price : {2}]

\* two categories, named in either order or alike; the first with up to
\* MaxItems items, the second with at most one
RichCatalogs ==
    {<< [slug |-> "a", name |-> na, items |-> ia],
        [slug |-> "b", name |-> nb, items |-> ib] >> :
        na \in {"p", "q"}, nb \in {"p", "q"},
        ia \in SeqsUpTo(CatalogItems, MaxItems), ib \in SeqsUpTo(CatalogItems, 1)}

InitCatalog ==
    /\ db \in {seed_data(init_db(EmptyDb), catalog) : catalog \in RichCatalogs}
    /\ txn = NoTxn
    /\ th = [t \in Threads |-> IdleThread]
    /\ settings = [smtp_host |-> FALSE, email_from |-> FALSE]
    /\ canon = Slugs

NextCatalog ==
    \/ \E t \in Threads : CallGetCatalog(t)
    \/ \E t \in Threads : Finish(t)

SpecCatalog == InitCatalog /\ [][NextCatalog]_vars

(***************************************************************************)
(* Startup after startup, against catalogs that change between versions:   *)
(* categories come and go, items move between subcategories, an item name  *)
(* may appear twice in a category                                          *)
(***************************************************************************)
\* largest AUTOINCREMENT id a category or product may take over the startups
MaxSeedId == 4

SeedItems == [subcategory : {"s", "t"}, name : {"x", "y"}, price : {2}]

SlugsOf(catalog) == {catalog[i].slug : i \in DOMAIN catalog}

SeedCatalogs ==
    {SelectSeq(<< [slug |-> "a", name |-> na, items |-> ia],
                  [slug |-> "b", name |-> "p", items |-> ib] >>,
               LAMBDA c : c.slug \in S) :
        S \in SUBSET Slugs, na \in {"p", "q"},
        ia \in SeqsUpTo(SeedItems, 2),
        ib \in {<<>>, << [subcategory |-> "t", name |-> "y", price |-> 3] >>}}

\* run() of a version whose catalog_seed is catalog: init_db(), seed_data()
Reconcile(catalog) ==
    /\ AllIdle
    /\ canon' = SlugsOf(catalog)
    /\ LET d == seed_data(init_db(db), catalog)
       IN  /\ d.seq.categories <= MaxSeedId
           /\ d.seq.products <= MaxSeedId
           /\ db' = d
    /\ UNCHANGED <<txn, th, settings>>

InitSeed ==
    /\ db \in {EmptyDb, LegacyDb}
    /\ txn = NoTxn
    /\ th = [t \in Threads |-> IdleThread]
    /\ settings = [smtp_host |-> FALSE, email_from |-> FALSE]
    /\ canon = {"-"}

NextSeed == \E catalog \in SeedCatalogs : Reconcile(catalog)

SpecSeed == InitSeed /\ [][NextSeed]_vars

(***************************************************************************)
(* The order store used by two threads at once: create_order and           *)
(* get_order_summary called directly, startups between the calls           *)
(***************************************************************************)
\* largest AUTOINCREMENT id an order may take when two threads create orders
MaxStoreOrders == 2

Workers == {1, 2}

Line(p, q) == [isdict |-> TRUE, keys |-> {"productId", "quantity"}, productId |-> p, quantity |-> q]

\* a one-line cart, a two-line cart, a cart with a zero quantity
StoreCarts == {<<Line(1, 4)>>, <<Line(2, 4), Line(1, 4)>>, <<Line(2, 0)>>}

InitStore ==
    /\ db = EmptyDb
    /\ txn = NoTxn
    /\ th = [t \in Workers |-> IdleThread]
    /\ settings = [smtp_host |-> FALSE, email_from |-> FALSE]
    /\ canon = {"-"}

NextStore ==
    \/ \E S \in SUBSET Slugs : Startup(S)
    \/ \E t \in Workers, items \in StoreCarts : CallCreateOrder(t, items)
    \/ \E t \in Workers : InsertOrderWithin(t, MaxStoreOrders)
    \/ \E t \in Workers : Busy(t)
    \/ \E t \in Workers : InsertItem(t)
    \/ \E t \in Workers : Commit(t)
    \/ \E t \in Workers : StorageFault(t)
    \/ \E t \in Workers : CallGetOrderSummary(t)
    \/ \E t \in Workers : CallGetCatalog(t)
    \/ \E t \in Workers : Finish(t)

SpecStore == InitStore /\ [][NextStore]_vars

(***************************************************************************)
(* Properties                                                              *)
(***************************************************************************)
NoPartialOrder(d) ==
    /\ \A o \in d.orders : \E oi \in d.order_items : oi.order_id = o.id
    /\ \A oi \in d.order_items : \E o \in d.orders : o.id = oi.order_id

\* C1: the committed database never holds a partial order (an order without
\* items, an item without its order), and a create_order call that raises
\* has changed nothing in the committed database.
C1_NoPartialOrder ==
    /\ NoPartialOrder(db)
    /\ \A t \in Threads : th[t].result = "raised" => ~th[t].committed

\* C1 witness: a storage error struck after the order row and one item row
\* of a two-line cart were inserted; nothing of them is committed.
C1_Witness ==
    \E t \in Threads :
        /\ th[t].result = "raised"
        /\ th[t].exc = "OperationalError"
        /\ th[t].obs.lines = 2
        /\ th[t].i = 2
        /\ db.orders = {}

\* C2: a valid cart (non-empty, every product id existing, every quantity a
\* positive whole number) is accepted by create_order, and the summary of
\* the returned id has one line per cart line with that line's quantity,
\* lineTotal = price * quantity, and total = the sum of the line totals.
C2_ValidCartSummary ==
    \A t \in Threads :
        (th[t].invoked /\ th[t].obs.valid) =>
            /\ ~(th[t].result = "raised" /\ th[t].exc = "ValueError")
            /\ (th[t].mode = "call" /\ th[t].pc = "done" /\ th[t].result = "returned") =>
                  /\ th[t].summary.found
                  /\ Len(th[t].summary.items) = Len(th[t].items)
                  /\ \A k \in DOMAIN th[t].items :
                        /\ 2 * th[t].summary.items[k].quantity = th[t].items[k].quantity
                        /\ \E p \in db.products :
                              /\ p.id = th[t].items[k].productId
                              /\ 2 * th[t].summary.items[k].lineTotal
                                    = p.price * th[t].items[k].quantity
                  /\ 2 * th[t].summary.total =
                        SumSeq([k \in DOMAIN th[t].items |->
                            (CHOOSE p \in db.products : p.id = th[t].items[k].productId).price
                                * th[t].items[k].quantity])

\* C3: a non-empty cart is rejected with the unknown-product error exactly
\* when the number of products resolved differs from the number of distinct
\* product ids of the cart.
C3_UnknownProductIffDistinct ==
    \A t \in Threads :
        (th[t].invoked /\ th[t].obs.lines > 0) =>
            ((th[t].msg = "One or more products do not exist.")
                <=> (th[t].obs.resolved # th[t].obs.distinct))

\* C4: every committed order item references an existing product, and that
\* product an existing category, whatever startups and orders happened.
C4_ReferencesPreserved ==
    \A oi \in db.order_items :
        \E p \in db.products :
            /\ p.id = oi.product_id
            /\ \E c \in db.categories : c.id = p.category_id

\* C4 witness: after a startup whose catalog no longer has a category, an
\* order item still references a product of that category.
C4_Witness ==
    /\ canon # {"-"}
    /\ \E oi \in db.order_items, p \in db.products, c \in db.categories :
          /\ p.id = oi.product_id
          /\ c.id = p.category_id
          /\ c.slug \notin canon

\* C5: a cart with a line whose quantity is <= 0 makes create_order raise
\* ValueError, and the call changes no committed row (the numbers of orders
\* and of order items stay as they were).
C5_NonPositiveQuantityRejected ==
    \A t \in Threads :
        (th[t].invoked /\ th[t].obs.nonpos) =>
            /\ th[t].result = "raised"
            /\ th[t].exc = "ValueError"
            /\ ~th[t].committed

\* C5 witness: a cart whose products all exist, on distinct lines, was
\* rejected for a quantity <= 0.
C5_Witness ==
    \E t \in Threads :
        /\ th[t].invoked
        /\ th[t].obs.nonpos
        /\ th[t].obs.lines = 2
        /\ th[t].obs.resolved = 2
        /\ th[t].msg = "Quantities must be greater than zero."

\* C6: a cart that names a product id that does not exist makes
\* create_order fail, and the call commits no order and no order item.
C6_UnknownProductRejected ==
    \A t \in Threads :
        (th[t].invoked /\ th[t].obs.unknown) =>
            /\ th[t].result = "raised"
            /\ ~th[t].committed

\* C6 witness: a two-line cart with one existing and one unknown product
\* was rejected.
C6_Witness ==
    \E t \in Threads :
        /\ th[t].invoked
        /\ th[t].obs.unknown
        /\ th[t].obs.lines = 2
        /\ th[t].obs.resolved = 1
        /\ th[t].result = "raised"

\* C7: create_order with an empty cart raises the cart-empty ValueError
\* without opening a connection, and commits nothing.
C7_EmptyCartRejected ==
    \A t \in Threads :
        (th[t].invoked /\ th[t].obs.lines = 0) =>
            /\ th[t].result = "raised"
            /\ th[t].exc = "ValueError"
            /\ th[t].msg = "Cart is empty."
            /\ th[t].conns = 0
            /\ ~th[t].committed

\* C7 witness: create_order was called with an empty cart and raised.
C7_Witness ==
    \E t \in Threads :
        /\ th[t].invoked
        /\ th[t].obs.lines = 0
        /\ th[t].result = "raised"

\* C8: send_order_confirmation_email never lets an exception reach its
\* caller, for any summary the order flow hands it.
C8_NotifierNeverRaises ==
    \A t \in Threads : th[t].delivered # "raised"

\* C9: a request whose order create_order committed is answered 201,
\* whatever the notifier did.
C9_CommittedAnswered201 ==
    \A t \in Threads :
        (th[t].mode = "http" /\ th[t].pc = "done" /\ th[t].result = "returned") =>
            th[t].response = 201

\* C10: a request with an input error is answered 400, and for a
\* field-level error create_order is not invoked.
C10_InputErrorAnswered400 ==
    \A t \in Threads :
        (th[t].mode = "http" /\ th[t].pc = "done" /\ th[t].errs # {}) =>
            /\ th[t].response = 400
            /\ (th[t].errs \cap FieldLevelErrors # {}) => ~th[t].invoked

\* what C11 asks of one startup against the catalog with slugs S: a stale
\* category goes with all its products when nothing references them, and
\* stays with all its products, unchanged, otherwise
StaleReconciled(S) ==
    \A c \in db.categories :
        c.slug \notin S =>
            IF referencing(db, c.id) = 0
            THEN /\ \A k \in db'.categories : k.id # c.id
                 /\ \A p \in db'.products : p.category_id # c.id
            ELSE /\ c \in db'.categories
                 /\ ProductsOfCategory(db', c.id) = ProductsOfCategory(db, c.id)

\* C11: at startup a persisted category whose slug is not in the canonical
\* catalog is deleted together with all its products if and only if no
\* order item references one of its products; otherwise the category and
\* its products stay as they were.
C11_StaleCategoryDeletedIffUnreferenced ==
    [][\A S \in SUBSET Slugs : Startup(S) => StaleReconciled(S)]_vars

\* C11 witness: after a startup, one category id is gone from the database
\* while another category, stale and referenced by an order item, is still
\* there with its product.
C11_Witness ==
    /\ Started
    /\ \E id \in 1..db.seq.categories : \A c \in db.categories : c.id # id
    /\ \E c \in db.categories :
          /\ c.slug \notin canon
          /\ referencing(db, c.id) > 0

\* C12: once startup has run, every persisted order has status "received",
\* whether create_order inserted it or an earlier version left it as
\* "pending_verification".
C12_StatusReceived ==
    Started => \A o \in db.orders : o.status = "received"

\* C12 witness: after startup the order of the earlier version is there,
\* with status "received".
C12_Witness ==
    /\ Started
    /\ \E o \in db.orders : o.email = LegacyEmail /\ o.status = "received"

\* what C13 asks of a successful create_order: one more order row, one more
\* item row per cart line, all of them under the new order, and categories
\* and products as they were
OneOrderAdded(t) ==
    /\ db'.categories = db.categories
    /\ db'.products = db.products
    /\ Cardinality(db'.orders \ db.orders) = 1
    /\ Cardinality(db'.order_items \ db.order_items) = Len(th[t].items)
    /\ \A oi \in db'.order_items \ db.order_items :
          /\ oi.order_id = th[t].order_id
          /\ \E o \in db'.orders \ db.orders : o.id = oi.order_id

\* C13: no step (a later create_order, get_order_summary, init_db or
\* seed_data) modifies or removes a persisted order or order item, and the
\* commit of a create_order call adds exactly one order row and one item
\* row per cart line, leaving categories and products unchanged.
C13_OrdersImmutable ==
    [][/\ db.orders \subseteq db'.orders
       /\ db.order_items \subseteq db'.order_items
       /\ \A t \in DOMAIN th : Commit(t) => OneOrderAdded(t)]_vars

\* C13 witness: two orders are persisted, the second one with two lines,
\* and a startup that came after an order found its category gone from the
\* catalog.
C13_Witness ==
    /\ Cardinality(db.orders) = 2
    /\ Cardinality({oi \in db.order_items : oi.order_id = 2}) = 2
    /\ \E c \in db.categories : c.slug \notin canon /\ referencing(db, c.id) > 0

\* the item rows of one order, in rowid order
RECURSIVE RowsById(_)
RowsById(rows) ==
    IF rows = {}
    THEN <<>>
    ELSE LET first == CHOOSE r \in rows : \A o \in rows : r.id <= o.id
         IN  <<first>> \o RowsById(rows \ {first})

OwnLines(d, thr) ==
    LET rows == RowsById({oi \in d.order_items : oi.order_id = thr.order_id})
    IN  /\ Len(rows) = Len(thr.items)
        /\ \A k \in DOMAIN rows :
              /\ rows[k].product_id = thr.items[k].productId
              /\ rows[k].quantity = PyInt(thr.items[k].quantity)

\* C19: whatever the interleaving of two create_order calls, the calls that
\* return have distinct order ids, and the item rows committed under each
\* returned id are exactly the lines of that call's cart, in order.
C19_ConcurrentCallsIsolated ==
    /\ \A t \in DOMAIN th :
          (th[t].mode = "call" /\ th[t].result = "returned") => OwnLines(db, th[t])
    /\ \A t, u \in DOMAIN th :
          (t # u /\ th[t].result = "returned" /\ th[u].result = "returned")
              => th[t].order_id # th[u].order_id

\* C19 witness: two calls have returned; the one that got the second id
\* made its product lookup while the other thread was inside its
\* transaction, and has a two-line cart.
C19_Witness ==
    \E t, u \in DOMAIN th :
        /\ t # u
        /\ th[t].result = "returned"
        /\ th[u].result = "returned"
        /\ th[t].raced
        /\ th[t].order_id = 2
        /\ th[u].order_id = 1
        /\ Len(th[t].items) = 2

\* the products a catalog entry lists: one element per position, with the
\* label of the group
Listed(entry) ==
    UNION {{[id |-> entry.subcategories[g].items[k].id,
             subcategory |-> entry.subcategories[g].subcategory, g |-> g, k |-> k] :
                k \in DOMAIN entry.subcategories[g].items} :
           g \in DOMAIN entry.subcategories}

CatalogWellFormed(d, catalog) ==
    /\ Len(catalog) = Cardinality(d.categories)
    /\ \A c \in d.categories :
          \E e \in DOMAIN catalog : catalog[e].id = c.id /\ catalog[e].name = c.name
    /\ \A i, j \in DOMAIN catalog : i < j => Ord(catalog[i].name) <= Ord(catalog[j].name)
    /\ \A e \in DOMAIN catalog :
          LET entry  == catalog[e]
              groups == entry.subcategories
          IN  /\ \A p \in ProductsOfCategory(d, entry.id) :
                    /\ Cardinality({l \in Listed(entry) : l.id = p.id}) = 1
                    /\ \A l \in Listed(entry) : l.id = p.id => l.subcategory = p.subcategory
              /\ \A l \in Listed(entry) :
                    \E p \in ProductsOfCategory(d, entry.id) : p.id = l.id
              /\ \A g, h \in DOMAIN groups :
                    g < h => Ord(groups[g].subcategory) < Ord(groups[h].subcategory)
              /\ \A g \in DOMAIN groups : \A k, m \in DOMAIN groups[g].items :
                    k < m => Ord(groups[g].items[k].name) <= Ord(groups[g].items[m].name)

\* C14: get_catalog returns every category once, in ascending order of
\* name; under a category every product of that category exactly once, in
\* the one group labelled with its subcategory, groups in ascending order
\* of subcategory, items in ascending order of name; and no product of
\* another category.
C14_CatalogOrdered ==
    \A t \in DOMAIN th : \A n \in DOMAIN th[t].catalogs :
        CatalogWellFormed(db, th[t].catalogs[n])

\* C14 witness: a catalog was returned whose first category is the one
\* inserted second, and whose second category has two groups, the second
\* group with two items, listed in another order than they were inserted.
C14_Witness ==
    \E t \in DOMAIN th :
        /\ th[t].catalogs # <<>>
        /\ LET catalog == th[t].catalogs[1]
           IN  /\ Len(catalog) = 2
               /\ catalog[1].id = 2
               /\ Len(catalog[2].subcategories) = 2
               /\ Len(catalog[2].subcategories[2].items) = 2
               /\ catalog[2].subcategories[1].items[1].id
                     > catalog[2].subcategories[2].items[1].id

C16_MissingOrderNotFound ==
    [][\A t \in DOMAIN th, order_id \in OrderIdInputs :
          (CallGetOrderSummaryOf(t, order_id) /\ \A o \in db.orders : o.id # order_id) =>
              /\ th'[t].summary = NoSummary
              /\ th'[t].exc = "none"
              /\ db' = db]_vars

\* C16 witness: with an order persisted, the summary of another id was
\* asked and not found.
C16_Witness ==
    \E t \in DOMAIN th :
        /\ th[t].mode = "lookup"
        /\ th[t].pc = "done"
        /\ th[t].order_id = MaxOrders + 1
        /\ db.orders # {}
        /\ ~th[t].summary.found

\* C17: when the mail transport is not configured (no SMTP host, no from
\* address, or no recipient in the summary), send_order_confirmation_email
\* returns false and makes no send attempt.
C17_UnconfiguredReturnsFalse ==
    \A t \in DOMAIN th :
        (th[t].delivered # "none" /\ not_configured(settings, th[t].summary)) =>
            /\ th[t].delivered = "false"
            /\ th[t].sends = 0

\* C18: create_order lets a cart through to its writes only when every
\* quantity is a positive integer (any other value is rejected before any
\* write), so every item row it inserts holds the quantity submitted.
C18_QuantityPositiveInteger ==
    \A t \in DOMAIN th :
        th[t].pc \in {"insert_order", "insert_items"} =>
            /\ \A k \in DOMAIN th[t].items :
                  /\ th[t].items[k].quantity > 0
                  /\ th[t].items[k].quantity % 2 = 0
            /\ txn.owner = t =>
                  \A oi \in txn.view.order_items :
                      oi.order_id = th[t].order_id =>
                          \E k \in DOMAIN th[t].items :
                              /\ th[t].items[k].productId = oi.product_id
                              /\ th[t].items[k].quantity = 2 * oi.quantity

\* C20: within one POST /api/orders request the steps come in the order
\* validate, commit, notify, respond: create_order is reached only by a
\* request that passed the handler's validation, the notifier is invoked
\* only for an order that is committed, at most one send attempt is made,
\* and no response is sent before the notifier has returned.
C20_StepsOrdered ==
    \A t \in DOMAIN th :
        th[t].mode = "http" =>
            /\ th[t].invoked => th[t].errs \cap FieldLevelErrors = {}
            /\ th[t].delivered # "none" =>
                  /\ th[t].result = "returned"
                  /\ th[t].summary.found
                  /\ \E o \in db.orders : o.id = th[t].order_id
            /\ th[t].sends <= 1
            /\ th[t].pc \in {"insert_order", "insert_items", "summary", "notify"} =>
                  th[t].response = 0
            /\ th[t].response = 201 =>
                  /\ th[t].result = "returned"
                  /\ th[t].summary.found => th[t].delivered \in {"true", "false"}

\* C20 witness: a request was answered 201 after its order was committed
\* and the one send attempt of the notifier had failed.
C20_Witness ==
    \E t \in DOMAIN th :
        /\ th[t].mode = "http"
        /\ th[t].response = 201
        /\ th[t].sends = 1
        /\ th[t].delivered = "false"
        /\ \E o \in db.orders : o.id = th[t].order_id

\* the thread is inside the with-block of a storage operation
InOperation(thr) == thr.pc \in {"insert_order", "insert_items"}

\* C21: every storage operation closes the connection it opened on every
\* exit path (success, validation failure inside the with-block,
\* exception): a thread that is not inside an operation has no connection
\* open and holds no transaction, and a thread inside one has exactly one.
C21_ConnectionsReleased ==
    \A t \in DOMAIN th :
        /\ ~InOperation(th[t]) => (th[t].open = 0 /\ txn.owner # t)
        /\ InOperation(th[t]) => th[t].open = 1

\* C21 witness: a create_order call that waited for the write lock and
\* gave up has left with its one connection closed, while the other
\* thread is still inside its transaction.
C21_Witness ==
    \E t, u \in DOMAIN th :
        /\ th[t].exc = "OperationalError"
        /\ th[t].msg = "locked"
        /\ th[t].conns = 1
        /\ th[t].open = 0
        /\ txn.owner = u
        /\ th[u].open = 1

\* C22: seed_data is idempotent: from whatever database the startups so
\* far have left, running it twice in a row against one catalog leaves the
\* categories, the products with their ids, the orders and the order items
\* exactly as running it once does.
C22_SeedIdempotent ==
    \A catalog \in SeedCatalogs :
        LET once == seed_data(db, catalog)
        IN  seed_data(once, catalog) = once

\* C22 witness: after several startups the database holds a stale category
\* kept for the order item that references it, a category that was removed
\* and seeded again under a new id, with its product.
C22_Witness ==
    /\ Started
    /\ \E c \in db.categories : c.slug \notin canon /\ referencing(db, c.id) > 0
    /\ \E id \in 1..db.seq.categories : \A c \in db.categories : c.id # id
    /\ \E c \in db.categories :
          /\ c.slug \in canon
          /\ c.id = 3
          /\ ProductsOfCategory(db, c.id) # {}

\* C23: a request answered with an error status (400 or 500) has left no
\* order row and no item row in the database; a request commits an order
\* only if it is answered 201.
C23_ErrorStatusNothingPersisted ==
    \A t \in DOMAIN th :
        th[t].mode = "http" =>
            /\ th[t].response \in {400, 500} =>
                  /\ ~th[t].committed
                  /\ \A o \in db.orders : o.id # th[t].order_id
            /\ (th[t].pc = "done" /\ th[t].committed) => th[t].response = 201

====
